---- MODULE Spec2Model ----
(***************************************************************************)
(* Model of cargo's build context, src/cargo/ops/cargo_rustc/context/mod.rs *)
(*                                                                         *)
(*   SpecWalk       Context::build_used_in_plugin_map                      *)
(*   SpecRewalk     build_used_in_plugin_map called more than once         *)
(*   SpecWalkCalls  build_used_in_plugin_map, one invocation at a time     *)
(*   SpecDeps       Context::dep_targets                                   *)
(*   SpecFlags      Context::rustflags_args / rustdocflags_args, env_args  *)
(*   SpecIncr       Context::incremental_args                              *)
(*   SpecProbeKind  Context::probe_target_info_kind, parse_crate_type      *)
(*   SpecNew        Context::new, Context::probe_target_info               *)
(*                                                                         *)
(* Strings whose characters matter (compiler output, environment values,   *)
(* configuration keys) are sequences of one-character strings.             *)
(***************************************************************************)
EXTENDS Integers, Sequences, FiniteSets, TLC

VARIABLES
    \* ---- Context fields -------------------------------------------------
    unit_dependencies,       \* HashMap<Unit, Vec<Unit>>
    build_script_overridden, \* HashSet<(PackageId, Kind)>
    used_in_plugin,          \* HashSet<Unit>
    \* ---- build_used_in_plugin_map in progress ---------------------------
    wpc,                     \* "idle" | "walking" | "done" | "panic"
    roots,                   \* the `units` argument of the call in progress
    ri,                      \* position of the `for unit in units` loop
    visited,                 \* HashSet<(Unit, bool)> local to one call
    expansions,              \* the (Unit, flag) pairs expanded by the call, in order
    stack,                   \* the walk_used_in_plugin_map calls in progress, innermost last
    \* ---- dep_targets as a query -----------------------------------------
    dep_unit,                \* the unit last queried ("none" before any query)
    dep_result,              \* what the query produced
    \* ---- inputs of the flag queries -------------------------------------
    requested_target,        \* build_config.requested_target: Option<String>
    config,                  \* the cargo configuration (target table, build section)
    host_info,               \* TargetInfo of Kind::Host
    target_info,             \* TargetInfo of Kind::Target
    \* ---- rustflags_args / rustdocflags_args as queries ------------------
    flag_pc,                 \* "idle" | "returned"
    flag_name,               \* "RUSTFLAGS" | "RUSTDOCFLAGS"
    flag_kind,               \* unit.kind of the unit asked about
    flag_env,                \* what env::var(name) held during the call
    flag_result,             \* CargoResult<Vec<String>>
    \* ---- incremental_args as a query ------------------------------------
    cargo_incremental,       \* env::var("CARGO_INCREMENTAL") when Context::new ran
    incremental_env,         \* Context::incremental_env: Option<bool>
    config_incremental,      \* the configuration's build.incremental
    incr_pc,                 \* "idle" | "returned"
    incr_unit,               \* the unit asked about
    incr_result,             \* CargoResult<Vec<String>>
    \* ---- Context::new and the compiler probe ----------------------------
    windows,                 \* cfg!(windows) of the build of cargo
    rustc_available,         \* whether config.rustc() succeeds
    new_pc,                  \* "start" | "probe" | "probe_target" | "deps" | "done" | "failed"
    new_log,                 \* the steps Context::new has taken, in order
    jobserver,               \* "unset" | "from_env" | "created" | "create_failed"
    compilation,             \* Compilation::host_dylib_path / target_dylib_path
    probe_kind,              \* the Kind of the last probe_target_info_kind call
    probe_rustc,             \* how the compiler behaved in that call
    probe_result             \* what that call returned, and the queries it issued

walkVars == <<wpc, roots, ri, visited, expansions, stack, used_in_plugin>>
depVars  == <<dep_unit, dep_result>>
ctxVars  == <<unit_dependencies, build_script_overridden>>
cfgVars  == <<requested_target, config, host_info, target_info>>
flagVars == <<flag_pc, flag_name, flag_kind, flag_env, flag_result>>
incrVars == <<cargo_incremental, incremental_env, config_incremental,
              incr_pc, incr_unit, incr_result>>
newVars  == <<windows, rustc_available, new_pc, new_log, jobserver, compilation,
              probe_kind, probe_rustc, probe_result>>
vars     == <<ctxVars, walkVars, depVars, cfgVars, flagVars, incrVars, newVars>>

\* What the operations of one component leave alone
outsideWalk  == <<ctxVars, depVars, cfgVars, flagVars, incrVars, newVars>>
outsideDeps  == <<ctxVars, walkVars, cfgVars, flagVars, incrVars, newVars>>
outsideFlags == <<ctxVars, walkVars, depVars, cfgVars, incrVars, newVars>>
outsideIncr  == <<ctxVars, walkVars, depVars, cfgVars, flagVars, newVars>>
outsideNew   == <<walkVars, depVars, flagVars, incrVars>>

-----------------------------------------------------------------------------
(* Bounds *)

MaxDeps  == 2    \* longest dependency list of a unit
MaxRoots == 2    \* longest `units` argument of build_used_in_plugin_map
MaxEnvLen == 3   \* longest value of a flag environment variable, in characters

-----------------------------------------------------------------------------
(* Units: the 4-tuple (pkg, target, profile, kind)                          *)

Kinds == {"Host", "Target"}

\* The units of the build.  "A" is a library built for the target, "B" the run
\* of package a's build script, "C" a library built for the host, "D" a
\* registry package's library that the dependency graph has no entry for.
UnitDef ==
    [A |-> [pkg |-> [name |-> "a", is_path |-> TRUE],
            target |-> [name |-> "lib", for_host |-> FALSE],
            profile |-> [run_custom_build |-> FALSE, incremental |-> TRUE],
            kind |-> "Target"],
     B |-> [pkg |-> [name |-> "a", is_path |-> TRUE],
            target |-> [name |-> "build-script-build", for_host |-> TRUE],
            profile |-> [run_custom_build |-> TRUE, incremental |-> FALSE],
            kind |-> "Host"],
     C |-> [pkg |-> [name |-> "a", is_path |-> TRUE],
            target |-> [name |-> "lib", for_host |-> FALSE],
            profile |-> [run_custom_build |-> FALSE, incremental |-> TRUE],
            kind |-> "Host"],
     D |-> [pkg |-> [name |-> "d", is_path |-> FALSE],
            target |-> [name |-> "lib", for_host |-> FALSE],
            profile |-> [run_custom_build |-> FALSE, incremental |-> FALSE],
            kind |-> "Target"]]

Units      == DOMAIN UnitDef
GraphUnits == {"A", "B", "C"}

for_host(u)         == UnitDef[u].target.for_host
run_custom_build(u) == UnitDef[u].profile.run_custom_build
package_id(u)       == UnitDef[u].pkg.name
unit_kind(u)        == UnitDef[u].kind

\* Sequences over S of length at most n
SeqsUpTo(S, n) == UNION {[1..k -> S] : k \in 0..n}

Range(s) == {s[i] : i \in 1..Len(s)}

\* The dependency graphs handed to the Context: an entry lists no unit twice.
\* A graph has an entry for every graph unit, or for every graph unit but the
\* build-script run "B" (a graph computed from roots that never reach it).
DepLists == {s \in SeqsUpTo(GraphUnits, MaxDeps) : Cardinality(Range(s)) = Len(s)}
Graphs   == [GraphUnits -> DepLists] \cup [GraphUnits \ {"B"} -> DepLists]

\* What custom_build::build_map may have recorded
OverrideSets == {{}, {<<"a", "Host">>}}

\* The `units` argument: top-level units, each named once
RootLists == {s \in SeqsUpTo(Units, MaxRoots) : Cardinality(Range(s)) = Len(s)}

-----------------------------------------------------------------------------
(* Context::dep_targets                                                     *)

\* An override test that forgets the profile's run_custom_build
dep_targets_overridden_any_profile(u) ==
    <<package_id(u), unit_kind(u)>> \in build_script_overridden

dep_targets_overridden(u) ==
    /\ run_custom_build(u)
    /\ <<package_id(u), unit_kind(u)>> \in build_script_overridden

\* A lookup that answers a missing entry with the empty list
dep_targets_missing_is_empty(u) ==
    IF dep_targets_overridden(u) \/ u \notin DOMAIN unit_dependencies
    THEN [panic |-> FALSE, val |-> <<>>]
    ELSE [panic |-> FALSE, val |-> unit_dependencies[u]]

\* `self.unit_dependencies[unit]` panics when the map has no entry
dep_targets(u) ==
    IF dep_targets_overridden(u)
    THEN [panic |-> FALSE, val |-> <<>>]
    ELSE IF u \in DOMAIN unit_dependencies
         THEN [panic |-> FALSE, val |-> unit_dependencies[u]]
         ELSE [panic |-> TRUE, val |-> <<>>]

DepTargetsQuery(u) ==
    /\ dep_unit' = u
    /\ dep_result' = dep_targets(u)
    /\ UNCHANGED outsideDeps

-----------------------------------------------------------------------------
(* Context::build_used_in_plugin_map and walk_used_in_plugin_map            *)

\* A walk that hands a child only the child's own flag
child_is_plugin_own_only(p, d) == for_host(d)

\* `is_plugin || unit.target.for_host()`, the flag a dependency is walked with
child_is_plugin(p, d) == p \/ for_host(d)

\* What a walk works on: the visited set of the call in progress, and
\* self.used_in_plugin; expansions lists the pairs that were new to visited
WalkState(v, used, exp) ==
    [visited |-> v, used_in_plugin |-> used, expansions |-> exp, panic |-> FALSE]

RECURSIVE walk_used_in_plugin_map(_, _, _)

\* for unit in self.dep_targets(unit) { self.walk_used_in_plugin_map(&unit,
\* is_plugin || unit.target.for_host(), visited)?; }, from the i-th on
RECURSIVE WalkDeps(_, _, _, _)
WalkDeps(deps, i, is_plugin, st) ==
    IF i > Len(deps) \/ st.panic THEN st
    ELSE WalkDeps(deps, i + 1, is_plugin,
                  walk_used_in_plugin_map(deps[i], child_is_plugin(is_plugin, deps[i]), st))

\* fn walk_used_in_plugin_map(&mut self, unit, is_plugin, visited)
walk_used_in_plugin_map(unit, is_plugin, st) ==
    IF <<unit, is_plugin>> \in st.visited
    THEN st          \* !visited.insert(..): return Ok(())
    ELSE LET entered == [st EXCEPT
                            !.visited = @ \cup {<<unit, is_plugin>>},
                            !.used_in_plugin = IF is_plugin THEN @ \cup {unit} ELSE @,
                            !.expansions = Append(@, <<unit, is_plugin>>)]
             d == dep_targets(unit)
         IN IF d.panic THEN [entered EXCEPT !.panic = TRUE]
            ELSE WalkDeps(d.val, 1, is_plugin, entered)

\* A call that starts from an empty used_in_plugin as it does from an empty
\* visited set
BeginBuildFreshMap(units) ==
    /\ wpc' = "walking"
    /\ roots' = units
    /\ ri' = 1
    /\ visited' = {}
    /\ expansions' = <<>>
    /\ stack' = <<>>
    /\ used_in_plugin' = {}
    /\ UNCHANGED outsideWalk

\* pub fn build_used_in_plugin_map(&mut self, units): a fresh visited set
BeginBuildUsedInPluginMap(units) ==
    /\ wpc' = "walking"
    /\ roots' = units
    /\ ri' = 1
    /\ visited' = {}
    /\ expansions' = <<>>
    /\ stack' = <<>>
    /\ UNCHANGED <<used_in_plugin, outsideWalk>>

\* for unit in units { self.walk_used_in_plugin_map(unit,
\* unit.target.for_host(), &mut visited)?; } Ok(()): one turn of the loop, or
\* its end
RootLoop ==
    /\ wpc = "walking"
    /\ IF ri <= Len(roots)
       THEN \E st \in {walk_used_in_plugin_map(
                          roots[ri], for_host(roots[ri]),
                          WalkState(visited, used_in_plugin, expansions))} :
               /\ visited' = st.visited
               /\ used_in_plugin' = st.used_in_plugin
               /\ expansions' = st.expansions
               /\ ri' = ri + 1
               /\ wpc' = IF st.panic THEN "panic" ELSE wpc
       ELSE /\ wpc' = "done"
            /\ UNCHANGED <<ri, visited, expansions, used_in_plugin>>
    /\ UNCHANGED <<roots, stack, outsideWalk>>

\* The same call, one walk_used_in_plugin_map invocation at a time.  A frame of
\* the stack is an invocation past its visited test with dependencies left to
\* walk: its arguments, the Vec dep_targets gave it, and the position of its
\* `for` loop.

\* A visited test that never finds the pair
visited_never_contains(v, unit, is_plugin) == FALSE

\* !visited.insert((*unit, is_plugin)), as a test on the set before the insert
visited_contains(v, unit, is_plugin) == <<unit, is_plugin>> \in v

\* Ok(()) of walk_used_in_plugin_map: the invocations whose loop is over
\* return, innermost first
RECURSIVE ReturnWalk(_)
ReturnWalk(frames) ==
    IF frames # <<>> /\ frames[Len(frames)].i > Len(frames[Len(frames)].deps)
    THEN ReturnWalk(SubSeq(frames, 1, Len(frames) - 1))
    ELSE frames

\* Entering walk_used_in_plugin_map(unit, is_plugin, visited) with `callers`
\* the frames below it: return at once on a visited pair, else record the
\* pair, mark the unit if is_plugin, and start on its dependencies
EnterWalk(unit, is_plugin, callers) ==
    IF visited_contains(visited, unit, is_plugin)
    THEN /\ stack' = ReturnWalk(callers)
         /\ UNCHANGED <<wpc, visited, expansions, used_in_plugin>>
    ELSE /\ visited' = visited \cup {<<unit, is_plugin>>}
         /\ used_in_plugin' = IF is_plugin THEN used_in_plugin \cup {unit}
                                           ELSE used_in_plugin
         /\ expansions' = Append(expansions, <<unit, is_plugin>>)
         /\ \E d \in {dep_targets(unit)} :
               IF d.panic
               THEN wpc' = "panic" /\ stack' = callers
               ELSE /\ wpc' = wpc
                    /\ stack' = ReturnWalk(Append(callers,
                                   [unit |-> unit, is_plugin |-> is_plugin,
                                    deps |-> d.val, i |-> 1]))

\* for unit in units { self.walk_used_in_plugin_map(unit,
\* unit.target.for_host(), &mut visited)?; }: the call for the next root
CallRoot ==
    /\ wpc = "walking"
    /\ stack = <<>>
    /\ ri <= Len(roots)
    /\ EnterWalk(roots[ri], for_host(roots[ri]), <<>>)
    /\ ri' = ri + 1
    /\ UNCHANGED <<roots, outsideWalk>>

\* for unit in self.dep_targets(unit) { self.walk_used_in_plugin_map(&unit,
\* is_plugin || unit.target.for_host(), visited)?; }: the call for the next
\* dependency of the innermost invocation
CallDep ==
    /\ wpc = "walking"
    /\ stack # <<>>
    /\ \E top \in {stack[Len(stack)]} :
         EnterWalk(top.deps[top.i],
                   child_is_plugin(top.is_plugin, top.deps[top.i]),
                   [stack EXCEPT ![Len(stack)].i = top.i + 1])
    /\ UNCHANGED <<roots, ri, outsideWalk>>

\* Ok(()) of build_used_in_plugin_map: the loop over the roots is over
ReturnBuild ==
    /\ wpc = "walking"
    /\ stack = <<>>
    /\ ri > Len(roots)
    /\ wpc' = "done"
    /\ UNCHANGED <<roots, ri, visited, expansions, stack, used_in_plugin, outsideWalk>>

-----------------------------------------------------------------------------
(* Strings as sequences of characters                                       *)

\* The byte of each character the model uses (str ordering is byte-wise)
CharCode(c) ==
    CASE c = "\t" -> 9   [] c = "\n" -> 10  [] c = " " -> 32  [] c = "\"" -> 34
      [] c = "(" -> 40   [] c = ")" -> 41   [] c = "-" -> 45  [] c = "." -> 46
      [] c = "/" -> 47   [] c = ":" -> 58   [] c = "=" -> 61  [] c = "_" -> 95
      [] c = "a" -> 97   [] c = "b" -> 98   [] c = "c" -> 99  [] c = "d" -> 100
      [] c = "f" -> 102  [] c = "g" -> 103  [] c = "i" -> 105 [] c = "l" -> 108
      [] c = "n" -> 110  [] c = "r" -> 114  [] c = "s" -> 115 [] c = "u" -> 117
      [] c = "x" -> 120  [] c = "y" -> 121

\* char::is_whitespace, on the characters of the model
IsWhitespace(c) == c \in {" ", "\t", "\n"}

\* s < t for str (lexicographic by byte)
StrLess(s, t) ==
    \E i \in 1..Len(t) :
        /\ \A j \in 1..(i - 1) : j <= Len(s) /\ s[j] = t[j]
        /\ \/ i = Len(s) + 1
           \/ i <= Len(s) /\ CharCode(s[i]) < CharCode(t[i])

\* str::starts_with / str::ends_with
StartsWith(s, p) == Len(p) <= Len(s) /\ SubSeq(s, 1, Len(p)) = p
EndsWith(s, p)   == Len(p) <= Len(s) /\ SubSeq(s, Len(s) - Len(p) + 1, Len(s)) = p

\* Whether p occurs in s at position i
MatchAt(s, p, i) ==
    /\ i + Len(p) - 1 <= Len(s)
    /\ SubSeq(s, i, i + Len(p) - 1) = p

\* The position of the first occurrence of p in s at or after i, 0 when there
\* is none
RECURSIVE FindFrom(_, _, _)
FindFrom(s, p, i) ==
    IF i + Len(p) - 1 > Len(s) THEN 0
    ELSE IF MatchAt(s, p, i) THEN i
    ELSE FindFrom(s, p, i + 1)

Find(s, p) == FindFrom(s, p, 1)

\* str::contains
Contains(s, p) == \E i \in 1..(Len(s) - Len(p) + 1) : MatchAt(s, p, i)

\* str::split(pattern): the pieces between occurrences, empty pieces kept
RECURSIVE Split(_, _)
Split(s, p) ==
    LET i == Find(s, p)
    IN IF i = 0 THEN <<s>>
       ELSE <<SubSeq(s, 1, i - 1)>> \o Split(SubSeq(s, i + Len(p), Len(s)), p)

\* str::trim: whitespace removed at both ends
RECURSIVE TrimStart(_)
TrimStart(s) ==
    IF s # <<>> /\ IsWhitespace(Head(s)) THEN TrimStart(Tail(s)) ELSE s

RECURSIVE TrimEnd(_)
TrimEnd(s) ==
    IF s # <<>> /\ IsWhitespace(s[Len(s)]) THEN TrimEnd(SubSeq(s, 1, Len(s) - 1)) ELSE s

Trim(s) == TrimEnd(TrimStart(s))

\* Vec<String>::sort(): ascending by StrLess
RECURSIVE SortStrs(_)
SortStrs(S) ==
    IF S = {} THEN <<>>
    ELSE LET m == CHOOSE x \in S : \A y \in S \ {x} : StrLess(x, y)
         IN <<m>> \o SortStrs(S \ {m})

\* The concatenation of a sequence of sequences
RECURSIVE Flatten(_)
Flatten(ss) == IF ss = <<>> THEN <<>> ELSE Head(ss) \o Flatten(Tail(ss))

None    == [some |-> FALSE, val |-> <<>>]
Some(v) == [some |-> TRUE, val |-> v]

\* Option<bool>::None
NoBool  == [some |-> FALSE, val |-> FALSE]

Ok(v)  == [err |-> FALSE, val |-> v]
Err    == [err |-> TRUE, val |-> <<>>]

-----------------------------------------------------------------------------
(* Configuration predicates: util::Cfg and util::CfgExpr                    *)

IdentChars == {"a", "b", "x"}

IsIdent(s) == s # <<>> /\ \A i \in 1..Len(s) : s[i] \in IdentChars

NoSpaces(s) == SelectSeq(s, LAMBDA c : c # " ")

\* Cfg::from_str / CfgExpr::from_str on the two leaf forms: a flag `name` and
\* a key/value pair `name = "value"`, white space between tokens ignored.
\* A flag is <<name>>, a pair <<name, value>>.
CfgFromStr(s) ==
    LET w == NoSpaces(s)
        e == Find(w, <<"=">>)
    IN IF IsIdent(w) THEN Ok(<<w>>)
       ELSE IF /\ e > 1
               /\ Len(w) >= e + 3
               /\ IsIdent(SubSeq(w, 1, e - 1))
               /\ w[e + 1] = "\"" /\ w[Len(w)] = "\""
               /\ IsIdent(SubSeq(w, e + 2, Len(w) - 1))
            THEN Ok(<<SubSeq(w, 1, e - 1), SubSeq(w, e + 2, Len(w) - 1)>>)
            ELSE Err

\* CfgExpr::matches(&[Cfg]) for a leaf expression
CfgMatches(c, target_cfg) == c \in Range(target_cfg)

-----------------------------------------------------------------------------
(* env_args                                                                 *)

HostTriple == <<"x">>

\* name.chars().flat_map(|c| c.to_lowercase()).collect()
ToLowercase(name) ==
    CASE name = "RUSTFLAGS" -> "rustflags"
      [] name = "RUSTDOCFLAGS" -> "rustdocflags"

TargetTriple == <<"y">>

\* Keys of the `target` table
KeyA    == <<"c", "f", "g", "(", "a", ")">>
KeyAX   == <<"c", "f", "g", "(", "a", " ", "=", " ", "\"", "x", "\"", ")">>
KeyB    == <<"c", "f", "g", "(", "b", ")">>
KeyOpen == <<"c", "f", "g", "(", "b">>
KeyBad  == <<"c", "f", "g", "(", "=", ")">>

\* The configurations of the model.  A section is absent, or holds a flag
\* list ("list"), a value of the wrong type ("malformed"), or no flag key at
\* all ("nokey").
TargetTables ==
    {[k \in {TargetTriple, KeyOpen, KeyBad, KeyB} \cup present |->
          IF k \in DOMAIN st THEN st[k]
          ELSE IF k = KeyB THEN kb
          ELSE "list"] :
        present \in SUBSET {HostTriple, KeyA, KeyAX},
        st \in UNION {[d -> {"list", "malformed"}] : d \in SUBSET {HostTriple, KeyA}},
        kb \in {"list", "nokey"}}

BuildSections ==
    {<<>>} \cup {[k \in {"build"} |-> v] : v \in {"list", "malformed"}}

Configs == [target : TargetTables, build : BuildSections]

\* What a probe may have left in TargetInfo::cfg
CfgFull  == << <<<<"a">>>>, <<<<"a">>, <<"x">>>>, <<<<"b">>>> >>
CfgLists == {None, Some(<< <<<<"a">>>> >>), Some(CfgFull)}

\* The two configurations furthest apart: nothing configured, and every entry
\* malformed
ConfigEmpty == [target |-> <<>>, build |-> <<>>]
ConfigAllMalformed ==
    [target |-> [k \in {HostTriple, TargetTriple, KeyA, KeyAX, KeyB} |-> "malformed"],
     build  |-> [k \in {"build"} |-> "malformed"]]

InfoWith(c) ==
    [crate_type_process |-> TRUE,
     crate_types |-> <<>>,
     cfg |-> c,
     sysroot_libdir |-> IF c.some THEN Some(<<"sysroot", "lib">>) ELSE None]

EnvChars  == {" ", "\t", "a", "b"}
EnvValues == {None} \cup {Some(v) : v \in SeqsUpTo(EnvChars, MaxEnvLen)}

\* config.get_list_or_split_string("target.<section>.<name>") and
\* ("build.<name>"): Ok(None) without the key, Err on a value that is neither
\* a list nor a string, Ok(Some(list)) otherwise.  The flags of a key name
\* the key, so that every key's flags are told apart.
GetList(cf, section, name) ==
    IF section \notin DOMAIN cf THEN Ok(None)
    ELSE IF cf[section] = "malformed" THEN Err
    ELSE IF cf[section] = "nokey" THEN Ok(None)
    ELSE Ok(Some(<< <<section, name, 1>>, <<section, name, 2>> >>))

\* The keys of the `target` table that are `cfg(..)` sections whose
\* expression parses and matches the probed cfg
MatchingCfgKeys(cf, target_cfg) ==
    {t \in DOMAIN cf :
        /\ StartsWith(t, <<"c", "f", "g", "(">>) /\ EndsWith(t, <<")">>)
        /\ LET c == CfgFromStr(SubSeq(t, 5, Len(t) - 1))
           IN ~c.err /\ CfgMatches(c.val, target_cfg)}

\* An ordering of the matching sections by the text between `cfg(` and `)`
SortCfgKeysByPredicate(S) ==
    LET byPred == SortStrs({SubSeq(t, 5, Len(t) - 1) : t \in S})
    IN [i \in 1..Len(byPred) |-> <<"c", "f", "g", "(">> \o byPred[i] \o <<")">>]

\* let mut cfgs = cfgs.collect::<Vec<_>>(); cfgs.sort();
SortCfgKeys(S) == SortStrs(S)

\* A split that leaves the pieces as they are cut
SplitEnvUntrimmed(a) ==
    SelectSeq(Split(a, <<" ">>), LAMBDA t : t # <<>>)

\* a.split(' ').map(str::trim).filter(|s| !s.is_empty())
SplitEnv(a) ==
    LET pieces == Split(a, <<" ">>)
        trimmed == [i \in 1..Len(pieces) |-> Trim(pieces[i])]
    IN SelectSeq(trimmed, LAMBDA t : t # <<>>)

\* The configuration part of env_args, lines 646-709
ConfigArgs(cf, requested, info_cfg, name) ==
    LET lname  == ToLowercase(name)
        target == IF requested.some THEN requested.val ELSE HostTriple
        triple == GetList(cf.target, target, lname)
        keys   == IF info_cfg.some
                  THEN SortCfgKeys(MatchingCfgKeys(cf.target, info_cfg.val))
                  ELSE <<>>
        reads  == [i \in 1..Len(keys) |-> GetList(cf.target, keys[i], lname)]
        build  == GetList(cf.build, "build", lname)
        rustflags ==
            (IF triple.val.some THEN triple.val.val ELSE <<>>)
            \o Flatten([i \in 1..Len(keys) |->
                            IF reads[i].val.some THEN reads[i].val.val ELSE <<>>])
    IN IF triple.err \/ \E i \in 1..Len(keys) : reads[i].err THEN Err
       ELSE IF rustflags # <<>> THEN Ok(rustflags)
       ELSE IF build.err THEN Err
       ELSE IF build.val.some THEN Ok(build.val.val)
       ELSE Ok(<<>>)

\* The configuration consulted even when the environment variable is set
EnvThenConfigConsultedFirst(cf, requested, info_cfg, env, name) ==
    LET c == ConfigArgs(cf, requested, info_cfg, name)
    IN IF c.err THEN Err
       ELSE IF env.some THEN Ok(SplitEnv(env.val))
       ELSE c

\* env_args after the Host test: the environment variable, else the configuration
EnvThenConfig(cf, requested, info_cfg, env, name) ==
    IF env.some THEN Ok(SplitEnv(env.val))
    ELSE ConfigArgs(cf, requested, info_cfg, name)

\* A Host test that lets the host through when the requested triple is the host's
HostExcludedUnlessSameTriple(requested, kind) ==
    requested.some /\ requested.val # HostTriple /\ kind # "Target"

\* compiling_with_target && !is_target_kind
HostExcluded(requested, kind) == requested.some /\ kind # "Target"

\* fn env_args(config, build_config, target_info, kind, name)
env_args(cf, requested, info_cfg, kind, env, name) ==
    IF HostExcluded(requested, kind) THEN Ok(<<>>)
    ELSE EnvThenConfig(cf, requested, info_cfg, env, name)

\* fn info(&self, kind)
info(kind) == IF kind = "Host" THEN host_info ELSE target_info

\* rustflags_args / rustdocflags_args: env_args for the unit's kind, under the
\* value `env` that the environment holds for the variable
FlagsArgs(name, kind, env) ==
    /\ flag_pc = "idle"
    /\ flag_pc' = "returned"
    /\ flag_name' = name
    /\ flag_kind' = kind
    /\ flag_env' = env
    /\ flag_result' = env_args(config, requested_target, info(kind).cfg, kind, env, name)
    /\ UNCHANGED outsideFlags

\* pub fn rustflags_args(&self, unit)
RustflagsArgs ==
    /\ flag_pc = "idle"
    /\ \E kind \in {unit_kind(u) : u \in Units}, env \in EnvValues :
           FlagsArgs("RUSTFLAGS", kind, env)

\* pub fn rustdocflags_args(&self, unit)
RustdocflagsArgs ==
    /\ flag_pc = "idle"
    /\ \E kind \in {unit_kind(u) : u \in Units}, env \in EnvValues :
           FlagsArgs("RUSTDOCFLAGS", kind, env)

-----------------------------------------------------------------------------
(* Context::new (CARGO_INCREMENTAL) and Context::incremental_args           *)

\* Values of the CARGO_INCREMENTAL environment variable
IncrementalEnvValues ==
    {None, Some(<<"1">>), Some(<<"0">>), Some(<<>>), Some(<<"1", "0">>),
     Some(<<"y">>)}

\* match env::var("CARGO_INCREMENTAL") { Ok(v) => Some(v == "1"), Err(_) => None }
IncrementalEnv(raw) == IF raw.some THEN Some(raw.val = <<"1">>) ELSE NoBool

\* config.get_bool("build.incremental")?.map(|c| c.val): the key absent, a
\* boolean, or a value that is no boolean
IncrementalConfigValues == {"absent", "true", "false", "malformed"}

GetBool(v) ==
    CASE v = "absent" -> Ok(NoBool)
      [] v = "true" -> Ok(Some(TRUE))
      [] v = "false" -> Ok(Some(FALSE))
      [] v = "malformed" -> Err

profile_incremental(u) == UnitDef[u].profile.incremental
is_path(u)             == UnitDef[u].pkg.is_path

\* A match in which build.incremental = true turns incremental compilation on
IncrementalChoiceGlobalWins(env, global_cfg, other) ==
    IF env.some THEN env.val
    ELSE IF global_cfg.some THEN global_cfg.val
    ELSE other

\* match (self.incremental_env, global_cfg, unit.profile.incremental)
IncrementalChoice(env, global_cfg, other) ==
    IF env.some THEN env.val
    ELSE IF global_cfg.some /\ ~global_cfg.val THEN FALSE
    ELSE other

\* pub fn incremental_args(&self, unit)
incremental_args(u) ==
    LET global_cfg == GetBool(config_incremental)
    IN IF global_cfg.err THEN Err
       ELSE IF ~IncrementalChoice(incremental_env, global_cfg.val, profile_incremental(u))
            THEN Ok(<<>>)
       ELSE IF ~is_path(u) THEN Ok(<<>>)
       ELSE Ok(<<"-C", <<"incremental=", unit_kind(u)>>>>)

IncrementalArgs(u) ==
    /\ incr_pc = "idle"
    /\ incr_pc' = "returned"
    /\ incr_unit' = u
    /\ incr_result' = incremental_args(u)
    /\ UNCHANGED <<cargo_incremental, incremental_env, config_incremental, outsideIncr>>

-----------------------------------------------------------------------------
(* The compiler, as the probe sees it                                       *)

BIN        == <<"b", "i", "n">>
RLIB       == <<"r", "l", "i", "b">>
DYLIB      == <<"d", "y", "l", "i", "b">>
CDYLIB     == <<"c", "d", "y", "l", "i", "b">>
STATICLIB  == <<"s", "t", "a", "t", "i", "c", "l", "i", "b">>
PROC_MACRO == <<"p", "r", "o", "c", "-", "m", "a", "c", "r", "o">>

\* const KNOWN_CRATE_TYPES: &[&str]
KNOWN_CRATE_TYPES == <<BIN, RLIB, DYLIB, CDYLIB, STATICLIB, PROC_MACRO>>

Delimiter == <<"_", "_", "_">>

\* The file name prefix and suffix the compiler gives each crate type
FileNameParts(t) ==
    CASE t = BIN        -> <<<<>>, <<>>>>
      [] t = RLIB       -> <<<<"l", "i", "b">>, <<".", "r", "l", "i", "b">>>>
      [] t = DYLIB      -> <<<<"l", "i", "b">>, <<".", "s", "o">>>>
      [] t = CDYLIB     -> <<<<>>, <<".", "d", "l", "l">>>>
      [] t = STATICLIB  -> <<<<"l", "i", "b">>, <<".", "a">>>>
      [] t = PROC_MACRO -> <<<<"l", "i", "b">>, <<".", "d", "y", "l", "i", "b">>>>

\* The directory the compiler prints for --print=sysroot
Sysroot == <<"/", "s", "r">>

\* How one compiler invocation pair can go.  combined/fallback: whether the
\* query with --print=sysroot --print=cfg, and the query without, succeed.
\* supported: the crate types the compiler supports.  phrase: the diagnostic
\* it uses for the others.  damage: what is wrong with the line of the last
\* supported crate type.  sysroot_line: whether the sysroot line is printed.
\* cfg_ok: whether the cfg lines parse.
Behaviours(supportedSets) ==
    {b \in [combined : BOOLEAN, fallback : BOOLEAN,
            supported : supportedSets,
            phrase : {"unknown", "unsupported"},
            damage : {"none", "missing_line", "no_delimiter", "empty_suffix"},
            sysroot_line : BOOLEAN, cfg_ok : BOOLEAN] :
        /\ b.combined => b.fallback
        /\ ~b.combined => b.sysroot_line /\ b.cfg_ok
        /\ b.supported = {} => b.damage = "none"}

AllCrateTypes == Range(KNOWN_CRATE_TYPES)

\* Every compiler of the model, and the few that Context::new is run against
AllBehaviours == Behaviours(SUBSET AllCrateTypes)
NewBehaviours == Behaviours({AllCrateTypes, AllCrateTypes \ {CDYLIB}, {}})

\* The supported crate types in request order
SupportedInOrder(b) == SelectSeq(KNOWN_CRATE_TYPES, LAMBDA t : t \in b.supported)

\* The stdout line of the i-th supported crate type
FileNameLine(b, i) ==
    LET sup   == SupportedInOrder(b)
        parts == FileNameParts(sup[i])
        last  == i = Len(sup)
    IN IF last /\ b.damage = "no_delimiter" THEN parts[1] \o <<"_">> \o parts[2]
       ELSE IF last /\ b.damage = "empty_suffix" THEN parts[1] \o Delimiter
       ELSE parts[1] \o Delimiter \o parts[2]

FileNameLines(b) ==
    LET sup == SupportedInOrder(b)
        n   == IF b.damage = "missing_line" THEN Len(sup) - 1 ELSE Len(sup)
    IN [i \in 1..n |-> FileNameLine(b, i)]

CfgLines(b) ==
    IF b.cfg_ok THEN <<<<"a">>, <<"a", "=", "\"", "x", "\"">>, <<"b">>>> ELSE <<<<"a">>, <<"=">>>>

\* Text made of lines, each ended by a newline
RECURSIVE Unlines(_)
Unlines(ls) == IF ls = <<>> THEN <<>> ELSE Head(ls) \o <<"\n">> \o Unlines(Tail(ls))

\* The stdout of a successful query
Stdout(b, with_cfg) ==
    Unlines(FileNameLines(b)
            \o (IF with_cfg /\ b.sysroot_line THEN <<Sysroot>> ELSE <<>>)
            \o (IF with_cfg THEN CfgLines(b) ELSE <<>>))

DiagnosticPhrase(b) ==
    IF b.phrase = "unknown" THEN <<"u", "n", "k", "n", "o", "w", "n", " ", "c", "r", "a", "t", "e", " ", "t", "y", "p", "e">> ELSE <<"u", "n", "s", "u", "p", "p", "o", "r", "t", "e", "d", " ", "c", "r", "a", "t", "e", " ", "t", "y", "p", "e">>

\* The stderr of a successful query: one diagnostic for each crate type that
\* is not supported
Stderr(b) ==
    LET missing == SelectSeq(KNOWN_CRATE_TYPES, LAMBDA t : t \notin b.supported)
    IN Unlines([i \in 1..Len(missing) |->
                   DiagnosticPhrase(b) \o <<":", " ">> \o missing[i]])

-----------------------------------------------------------------------------
(* parse_crate_type and Context::probe_target_info_kind                     *)

\* str::lines: the pieces that newlines end, and the piece after the last
\* newline unless it is empty
Lines(s) ==
    LET ends   == {i \in 1..Len(s) : s[i] = "\n"}
                  \cup (IF s # <<>> /\ s[Len(s)] # "\n" THEN {Len(s) + 1} ELSE {})
        End(i) == CHOOSE e \in ends : Cardinality({x \in ends : x < e}) = i - 1
    IN [i \in 1..Cardinality(ends) |->
           SubSeq(s, IF i = 1 THEN 1 ELSE End(i - 1) + 1, End(i) - 1)]

\* error.lines().any(|line| (line.contains("unsupported crate type")
\*     || line.contains("unknown crate type")) && line.contains(crate_type))
NotSupported(crate_type, error) ==
    LET ls == Lines(error)
    IN \E i \in 1..Len(ls) :
        LET line == ls[i]
        IN /\ \/ Contains(line, <<"u", "n", "s", "u", "p", "p", "o", "r", "t", "e", "d", " ", "c", "r", "a", "t", "e", " ", "t", "y", "p", "e">>)
              \/ Contains(line, <<"u", "n", "k", "n", "o", "w", "n", " ", "c", "r", "a", "t", "e", " ", "t", "y", "p", "e">>)
           /\ Contains(line, crate_type)

\* A parse that fails on an empty suffix
SuffixAfterDelimiterNonEmpty(parts) ==
    IF Len(parts) < 2 \/ parts[2] = <<>> THEN Err ELSE Ok(Some(<<parts[1], parts[2]>>))

\* let prefix = parts.next().unwrap(); let suffix = match parts.next() { .. }
SuffixAfterDelimiter(parts) ==
    IF Len(parts) < 2 THEN Err ELSE Ok(Some(<<parts[1], parts[2]>>))

\* fn parse_crate_type(crate_type, error, lines): the result, and the lines
\* left in the iterator
parse_crate_type(crate_type, error, lines) ==
    IF NotSupported(crate_type, error) THEN [res |-> Ok(None), rest |-> lines]
    ELSE IF lines = <<>> THEN [res |-> Err, rest |-> lines]
    ELSE [res  |-> SuffixAfterDelimiter(Split(Trim(Head(lines)), Delimiter)),
          rest |-> Tail(lines)]

\* for crate_type in KNOWN_CRATE_TYPES { let out = parse_crate_type(..)?;
\* map.insert(crate_type.to_string(), out); }, from the i-th crate type on
RECURSIVE ParseCrateTypes(_, _, _, _)
ParseCrateTypes(i, error, lines, map) ==
    IF i > Len(KNOWN_CRATE_TYPES) THEN [err |-> FALSE, map |-> map, rest |-> lines]
    ELSE LET out == parse_crate_type(KNOWN_CRATE_TYPES[i], error, lines)
         IN IF out.res.err THEN [err |-> TRUE, map |-> map, rest |-> out.rest]
            ELSE ParseCrateTypes(i + 1, error, out.rest,
                                 map @@ (KNOWN_CRATE_TYPES[i] :> out.res.val))

\* pub fn target_triple(&self)
target_triple == IF requested_target.some THEN requested_target.val ELSE HostTriple

\* let mut rustlib = PathBuf::from(line); rustlib.push(..)
SysrootLibdir(kind, line) ==
    IF kind = "Host"
    THEN IF windows THEN <<line, "bin">> ELSE <<line, "lib">>
    ELSE <<line, "lib", "rustlib", target_triple, "lib">>

TargetInfoDefault ==
    [crate_type_process |-> FALSE, crate_types |-> <<>>, cfg |-> None,
     sysroot_libdir |-> None]

ProbeErr(queries) == [err |-> TRUE, info |-> TargetInfoDefault, queries |-> queries]

\* A probe that goes on without cfg and sysroot when the fallback fails too
ExecQueriesFallbackUnchecked(b) ==
    IF b.combined
    THEN [err |-> FALSE, has_cfg_and_sysroot |-> TRUE, queries |-> <<"combined">>]
    ELSE [err |-> FALSE, has_cfg_and_sysroot |-> FALSE,
          queries |-> <<"combined", "fallback">>]

\* with_cfg.exec_with_output().or_else(|_| { has_cfg_and_sysroot = false;
\* process.exec_with_output() }).chain_err(..)?
ExecQueries(b) ==
    IF b.combined
    THEN [err |-> FALSE, has_cfg_and_sysroot |-> TRUE, queries |-> <<"combined">>]
    ELSE [err |-> ~b.fallback, has_cfg_and_sysroot |-> FALSE,
          queries |-> <<"combined", "fallback">>]

\* The part of probe_target_info_kind that reads the output, lines 295-341
ReadProbeOutput(kind, b, ex) ==
    LET error  == Stderr(b)
        lines  == Lines(Stdout(b, ex.has_cfg_and_sysroot))
        parsed == ParseCrateTypes(1, error, lines, <<>>)
        rest   == parsed.rest
        cfgs   == [i \in 1..(Len(rest) - 1) |-> CfgFromStr(rest[i + 1])]
    IN IF parsed.err THEN ProbeErr(ex.queries)
       ELSE IF ~ex.has_cfg_and_sysroot
            THEN [err |-> FALSE, queries |-> ex.queries,
                  info |-> [crate_type_process |-> TRUE, crate_types |-> parsed.map,
                            cfg |-> None, sysroot_libdir |-> None]]
       ELSE IF rest = <<>> THEN ProbeErr(ex.queries)
       ELSE IF \E i \in 1..Len(cfgs) : cfgs[i].err THEN ProbeErr(ex.queries)
       ELSE [err |-> FALSE, queries |-> ex.queries,
             info |-> [crate_type_process |-> TRUE, crate_types |-> parsed.map,
                       cfg |-> Some([i \in 1..Len(cfgs) |-> cfgs[i].val]),
                       sysroot_libdir |-> Some(SysrootLibdir(kind, rest[1]))]]

\* fn probe_target_info_kind(&self, kind), run against the compiler b
probe_target_info_kind(kind, b) ==
    LET rustflags == env_args(config, requested_target, info(kind).cfg, kind,
                              flag_env, "RUSTFLAGS")
        ex == ExecQueries(b)
    IN IF rustflags.err \/ ~rustc_available THEN ProbeErr(<<>>)
       ELSE IF ex.err THEN ProbeErr(ex.queries)
       ELSE ReadProbeOutput(kind, b, ex)

\* One call of probe_target_info_kind on the Context that Context::new is
\* filling
ProbeTargetInfoKindOn(kind, b) ==
    /\ probe_kind' = kind
    /\ probe_rustc' = b
    /\ probe_result' = probe_target_info_kind(kind, b)
    /\ UNCHANGED <<windows, rustc_available, new_pc, new_log, jobserver, compilation,
                   ctxVars, cfgVars, outsideNew>>

ProbeTargetInfoKind ==
    /\ new_pc = "probe"
    /\ probe_kind = "none"
    /\ \E kind \in Kinds, b \in AllBehaviours : ProbeTargetInfoKindOn(kind, b)

-----------------------------------------------------------------------------
(* Context::new and Context::probe_target_info                              *)

\* A set-up that goes on when the jobserver could not be created
NewSetupJobserverUnchecked(layout_ok, client) ==
    /\ new_log' = Append(new_log, "setup")
    /\ jobserver' = IF layout_ok THEN client ELSE jobserver
    /\ new_pc' = IF layout_ok THEN "probe" ELSE "failed"
    /\ UNCHANGED <<windows, rustc_available, compilation, probe_kind, probe_rustc,
                   probe_result, ctxVars, cfgVars, outsideNew>>

\* Layout::new(..)?, CARGO_INCREMENTAL and the jobserver: attached from the
\* environment, or created, which can fail
NewSetupWith(layout_ok, client) ==
    /\ new_log' = Append(new_log, "setup")
    /\ jobserver' = IF layout_ok THEN client ELSE jobserver
    /\ new_pc' = IF layout_ok /\ client # "create_failed" THEN "probe" ELSE "failed"
    /\ UNCHANGED <<windows, rustc_available, compilation, probe_kind, probe_rustc,
                   probe_result, ctxVars, cfgVars, outsideNew>>

NewSetup ==
    /\ new_pc = "start"
    /\ \E layout_ok \in BOOLEAN, client \in {"from_env", "created", "create_failed"} :
           NewSetupWith(layout_ok, client)

\* let host_target_same = match self.requested_target() {
\*     Some(s) if s != self.config.rustc()?.host => false, _ => true }
host_target_same ==
    IF requested_target.some
    THEN IF rustc_available THEN Ok(requested_target.val = HostTriple) ELSE Err
    ELSE Ok(TRUE)

\* self.compilation.host_dylib_path = ..; self.compilation.target_dylib_path = ..
DylibPaths(h, t) ==
    [host_dylib_path |-> h.sysroot_libdir, target_dylib_path |-> t.sysroot_libdir]

\* probe_target_info up to its first probe: the only one when host and target
\* are the same, the Host one otherwise
ProbeTargetInfoFirstOn(b) ==
    /\ IF host_target_same.err
       THEN /\ new_pc' = "failed"
            /\ UNCHANGED <<new_log, host_info, target_info, compilation,
                           probe_kind, probe_rustc, probe_result>>
       ELSE \E kind \in {IF host_target_same.val THEN "Target" ELSE "Host"} :
            \E r \in {probe_target_info_kind(kind, b)} :
               /\ probe_kind' = kind
               /\ probe_rustc' = b
               /\ probe_result' = r
               /\ new_log' = Append(new_log, <<"probe", kind>>)
               /\ IF r.err
                  THEN /\ new_pc' = "failed"
                       /\ UNCHANGED <<host_info, target_info, compilation>>
                  ELSE IF host_target_same.val
                  THEN /\ host_info' = r.info
                       /\ target_info' = r.info
                       /\ compilation' = DylibPaths(r.info, r.info)
                       /\ new_pc' = "deps"
                  ELSE /\ host_info' = r.info
                       /\ new_pc' = "probe_target"
                       /\ UNCHANGED <<target_info, compilation>>
    /\ UNCHANGED <<windows, rustc_available, jobserver, requested_target, config,
                   ctxVars, outsideNew>>

ProbeTargetInfoFirst ==
    /\ new_pc = "probe"
    /\ \E b \in NewBehaviours : ProbeTargetInfoFirstOn(b)

\* self.target_info = self.probe_target_info_kind(Kind::Target)?; and the rest
ProbeTargetInfoSecondOn(b) ==
    /\ \E r \in {probe_target_info_kind("Target", b)} :
          /\ probe_kind' = "Target"
          /\ probe_rustc' = b
          /\ probe_result' = r
          /\ new_log' = Append(new_log, <<"probe", "Target">>)
          /\ IF r.err
             THEN /\ new_pc' = "failed"
                  /\ UNCHANGED <<target_info, compilation>>
             ELSE /\ target_info' = r.info
                  /\ compilation' = DylibPaths(host_info, r.info)
                  /\ new_pc' = "deps"
    /\ UNCHANGED <<windows, rustc_available, jobserver, requested_target, config,
                   host_info, ctxVars, outsideNew>>

ProbeTargetInfoSecond ==
    /\ new_pc = "probe_target"
    /\ \E b \in NewBehaviours : ProbeTargetInfoSecondOn(b)

\* What build_unit_dependencies may return
DepsResults == {Err, Ok([u \in GraphUnits |-> <<>>]), Ok([u \in GraphUnits |-> <<"C">>])}

\* let deps = build_unit_dependencies(units, &cx)?; cx.unit_dependencies = deps;
\* and the rest of Context::new, which cannot fail
BuildUnitDependenciesWith(deps) ==
    /\ new_log' = Append(new_log, "deps")
    /\ IF deps.err
       THEN /\ new_pc' = "failed"
            /\ UNCHANGED unit_dependencies
       ELSE /\ new_pc' = "done"
            /\ unit_dependencies' = deps.val
    /\ UNCHANGED <<windows, rustc_available, jobserver, compilation, probe_kind,
                   probe_rustc, probe_result, build_script_overridden, cfgVars,
                   outsideNew>>

BuildUnitDependencies ==
    /\ new_pc = "deps"
    /\ \E deps \in DepsResults : BuildUnitDependenciesWith(deps)

-----------------------------------------------------------------------------
(* Specifications                                                           *)

\* ---- the parts of the state, each as construction leaves it ---------------

\* The dependency graph and the overrides, any of the model's
CtxInit ==
    /\ unit_dependencies \in Graphs
    /\ build_script_overridden \in OverrideSets

\* ... or one fixed graph, where the graph plays no part
CtxFixed ==
    /\ unit_dependencies = [u \in GraphUnits |-> <<>>]
    /\ build_script_overridden = {}

WalkIdle ==
    /\ used_in_plugin = {}
    /\ wpc = "idle"
    /\ roots = <<>>
    /\ ri = 1
    /\ visited = {}
    /\ expansions = <<>>
    /\ stack = <<>>

DepIdle ==
    /\ dep_unit = "none"
    /\ dep_result = [panic |-> FALSE, val |-> <<>>]

\* A Context as Context::new leaves it: one probe result for both kinds unless
\* a triple other than the host's was requested
FlagsCtxInit ==
    /\ requested_target \in {None, Some(HostTriple), Some(TargetTriple)}
    /\ config \in Configs
    /\ target_info \in {InfoWith(c) : c \in CfgLists}
    /\ IF requested_target = Some(TargetTriple)
       THEN host_info \in {InfoWith(None), InfoWith(Some(CfgFull))}
       ELSE host_info = target_info

\* ... or one fixed configuration, where flags play no part
CfgFixed ==
    /\ requested_target = None
    /\ config = [target |-> <<>>, build |-> <<>>]
    /\ host_info = InfoWith(None)
    /\ target_info = InfoWith(None)

FlagsIdle ==
    /\ flag_pc = "idle"
    /\ flag_name = "RUSTFLAGS"
    /\ flag_kind = "Target"
    /\ flag_env = None
    /\ flag_result = Ok(<<>>)

\* let incremental_env = match env::var("CARGO_INCREMENTAL") ..
IncrCtxInit ==
    /\ cargo_incremental \in IncrementalEnvValues
    /\ incremental_env = IncrementalEnv(cargo_incremental)
    /\ config_incremental \in IncrementalConfigValues

IncrCtxFixed ==
    /\ cargo_incremental = None
    /\ incremental_env = NoBool
    /\ config_incremental = "absent"

IncrIdle ==
    /\ incr_pc = "idle"
    /\ incr_unit = "none"
    /\ incr_result = Ok(<<>>)

\* Context::new has returned a Context
NewDone ==
    /\ windows = FALSE
    /\ rustc_available = TRUE
    /\ new_pc = "done"
    /\ new_log = <<>>
    /\ jobserver = "from_env"
    /\ compilation = DylibPaths(host_info, target_info)
    /\ probe_kind = "none"
    /\ probe_rustc = CHOOSE b \in NewBehaviours : b.combined /\ b.damage = "none"
    /\ probe_result = ProbeErr(<<>>)

\* Context::new is entered: the fields of `let mut cx = Context { .. }`
NewEntered ==
    /\ windows \in BOOLEAN
    /\ rustc_available \in BOOLEAN
    /\ requested_target \in {None, Some(HostTriple), Some(TargetTriple)}
    /\ config \in {ConfigEmpty, ConfigAllMalformed}
    /\ host_info = TargetInfoDefault
    /\ target_info = TargetInfoDefault
    /\ unit_dependencies = <<>>
    /\ build_script_overridden = {}
    /\ new_log = <<>>
    /\ compilation = DylibPaths(TargetInfoDefault, TargetInfoDefault)
    /\ probe_kind = "none"
    /\ probe_rustc = CHOOSE b \in NewBehaviours : b.combined /\ b.damage = "none"
    /\ probe_result = ProbeErr(<<>>)

\* ---- build_used_in_plugin_map on a constructed Context --------------------

InitWalk ==
    /\ CtxInit /\ WalkIdle /\ DepIdle
    /\ CfgFixed /\ FlagsIdle /\ IncrCtxFixed /\ IncrIdle /\ NewDone

NextWalk ==
    \/ wpc = "idle" /\ \E units \in RootLists : BeginBuildUsedInPluginMap(units)
    \/ RootLoop

SpecWalk == InitWalk /\ [][NextWalk]_vars

\* ---- build_used_in_plugin_map called again and again on one Context -------

NextRewalk ==
    \/ /\ wpc \in {"idle", "done"}
       /\ \E units \in RootLists : BeginBuildUsedInPluginMap(units)
    \/ RootLoop

SpecRewalk == InitWalk /\ [][NextRewalk]_vars

\* One build_used_in_plugin_map call followed invocation by invocation.  The
\* call runs on one thread that is not suspended for ever: a step of the call
\* that stays possible is eventually taken.
WalkCallStep == CallRoot \/ CallDep \/ ReturnBuild

NextWalkCalls ==
    \/ wpc = "idle" /\ \E units \in RootLists : BeginBuildUsedInPluginMap(units)
    \/ CallRoot
    \/ CallDep
    \/ ReturnBuild

\* No build script is overridden: every expanded unit's list is looked up
InitWalkCalls == InitWalk /\ build_script_overridden = {}

SpecWalkCalls == InitWalkCalls /\ [][NextWalkCalls]_vars /\ WF_vars(WalkCallStep)

\* ---- dep_targets on a constructed Context ---------------------------------

InitDeps ==
    /\ CtxInit /\ WalkIdle /\ DepIdle
    /\ CfgFixed /\ FlagsIdle /\ IncrCtxFixed /\ IncrIdle /\ NewDone

NextDeps == \E u \in Units : DepTargetsQuery(u)

SpecDeps == InitDeps /\ [][NextDeps]_vars

\* ---- rustflags_args / rustdocflags_args on a constructed Context ----------

InitFlags ==
    /\ CtxFixed /\ WalkIdle /\ DepIdle
    /\ FlagsCtxInit /\ FlagsIdle /\ IncrCtxFixed /\ IncrIdle /\ NewDone

NextFlags ==
    \/ RustflagsArgs
    \/ RustdocflagsArgs

SpecFlags == InitFlags /\ [][NextFlags]_vars

\* ---- incremental_args on a constructed Context ----------------------------

InitIncr ==
    /\ CtxFixed /\ WalkIdle /\ DepIdle
    /\ CfgFixed /\ FlagsIdle /\ IncrCtxInit /\ IncrIdle /\ NewDone

NextIncr == \E u \in Units : IncrementalArgs(u)

SpecIncr == InitIncr /\ [][NextIncr]_vars

\* ---- one probe_target_info_kind call, against every compiler --------------

\* Not on Windows and with no target requested: the two decide the library
\* directory only
InitProbeKind ==
    /\ WalkIdle /\ DepIdle /\ FlagsIdle /\ IncrCtxFixed /\ IncrIdle
    /\ NewEntered
    /\ ~windows
    /\ requested_target = None
    /\ jobserver = "from_env"
    /\ new_pc = "probe"

NextProbeKind == ProbeTargetInfoKind

SpecProbeKind == InitProbeKind /\ [][NextProbeKind]_vars

\* ---- Context::new ---------------------------------------------------------

InitNew ==
    /\ WalkIdle /\ DepIdle /\ FlagsIdle /\ IncrCtxFixed /\ IncrIdle
    /\ NewEntered
    /\ jobserver = "unset"
    /\ new_pc = "start"

NextNew ==
    \/ NewSetup
    \/ ProbeTargetInfoFirst
    \/ ProbeTargetInfoSecond
    \/ BuildUnitDependencies

SpecNew == InitNew /\ [][NextNew]_vars

-----------------------------------------------------------------------------
(* Reachability in the graph that dep_targets reports                       *)

Edge(x, y) == y \in Range(dep_targets(x).val)

RECURSIVE ReachN(_, _)
ReachN(S, n) ==
    IF n = 0 THEN S
    ELSE ReachN(S \cup {y \in Units : \E x \in S : Edge(x, y)}, n - 1)

\* The units some path of length >= 0 leads to from a unit of S
Reachable(S) == ReachN(S, Cardinality(Units))

\* The units that lie on or after a for_host unit on some path that starts at
\* a unit of rs: what the for_host units reachable from rs reach
PathMarked(rs) == Reachable({h \in Reachable(rs) : for_host(h)})

-----------------------------------------------------------------------------
(* Claims                                                                   *)

\* C1: when build_used_in_plugin_map(roots) returns, having started from an
\* empty used_in_plugin, a unit is in used_in_plugin exactly when some
\* dep_targets path from a root to it passes through a for_host unit (its
\* ends included).  The right-hand side reads the roots and the dependency
\* lists only as sets, so their order cannot matter.
C1_UsedInPluginIsPathMarked ==
    wpc = "done" =>
        used_in_plugin = PathMarked(Range(roots))

\* C1 witness: root A (not for_host) depends on build script B, B on C: B and
\* C are marked, A is not.
C1_Witness ==
    /\ wpc = "done"
    /\ roots = <<"A">>
    /\ "B" \in DOMAIN unit_dependencies
    /\ unit_dependencies["A"] = <<"C", "B">>
    /\ unit_dependencies["B"] = <<"C">>
    /\ build_script_overridden = {}
    /\ used_in_plugin = {"B", "C"}

\* C2: a unit whose profile runs a custom build and whose (package id, kind)
\* is overridden has no dependencies, whatever its entry holds; any other
\* unit with an entry gets exactly its entry.
C2_DepTargets ==
    dep_unit # "none" =>
        IF run_custom_build(dep_unit)
           /\ <<package_id(dep_unit), unit_kind(dep_unit)>> \in build_script_overridden
        THEN dep_result = [panic |-> FALSE, val |-> <<>>]
        ELSE dep_unit \in DOMAIN unit_dependencies =>
                 dep_result = [panic |-> FALSE, val |-> unit_dependencies[dep_unit]]

\* C2 witness: the overridden build-script run B has a non-empty entry and
\* dep_targets reported none of it.
C2_Witness ==
    /\ dep_unit = "B"
    /\ build_script_overridden = {<<"a", "Host">>}
    /\ "B" \in DOMAIN unit_dependencies
    /\ Len(unit_dependencies["B"]) = MaxDeps
    /\ dep_result.val = <<>>

-----------------------------------------------------------------------------
(* Flag resolution, stated without the code's sort                          *)

FlagQueryEligible == ~(requested_target.some /\ flag_kind = "Host")

\* The text between `cfg(` and `)` of a section key
PredicateText(t) == SubSeq(t, 5, Len(t) - 1)

\* The arrangements of the set S in which Before(x, y) holds of every two
\* neighbours x, y
Arrangements(S, Before(_, _)) ==
    {q \in [1..Cardinality(S) -> S] :
        /\ Range(q) = S
        /\ \A i \in 1..(Cardinality(S) - 1) : Before(q[i], q[i + 1])}

KeyTextBefore(x, y)   == StrLess(x, y)
PredicateBefore(x, y) == StrLess(PredicateText(x), PredicateText(y))

\* The flags a list of sections contributes
SectionFlags(keys, lname) ==
    Flatten([i \in 1..Len(keys) |->
                IF config.target[keys[i]] = "list"
                THEN <<<<keys[i], lname, 1>>, <<keys[i], lname, 2>>>>
                ELSE <<>>])

QueriedTriple == IF requested_target.some THEN requested_target.val ELSE HostTriple

TripleFlags(lname) ==
    IF QueriedTriple \in DOMAIN config.target /\ config.target[QueriedTriple] = "list"
    THEN <<<<QueriedTriple, lname, 1>>, <<QueriedTriple, lname, 2>>>>
    ELSE <<>>

BuildFlags(lname) ==
    IF "build" \in DOMAIN config.build /\ config.build["build"] = "list"
    THEN <<<<"build", lname, 1>>, <<"build", lname, 2>>>>
    ELSE <<>>

\* The sections whose predicate matches the probed cfg of the unit's kind
MatchingNow ==
    IF info(flag_kind).cfg.some
    THEN MatchingCfgKeys(config.target, info(flag_kind).cfg.val)
    ELSE {}

\* What a query without the environment variable returns when the matching
\* sections are taken in the order `keys`
ExpectedFromConfig(keys) ==
    LET lname == ToLowercase(flag_name)
        combined == TripleFlags(lname) \o SectionFlags(keys, lname)
    IN IF combined # <<>> THEN combined ELSE BuildFlags(lname)

\* A malformed entry among those the query reads
ConsultedMalformed ==
    LET lname == ToLowercase(flag_name)
        bad(cf, k) == k \in DOMAIN cf /\ cf[k] = "malformed"
    IN \/ bad(config.target, QueriedTriple)
       \/ \E k \in MatchingNow : bad(config.target, k)
       \/ /\ TripleFlags(lname) = <<>>
          /\ \A k \in MatchingNow : config.target[k] # "list"
          /\ bad(config.build, "build")

-----------------------------------------------------------------------------
(* Claims on the flag queries                                               *)

\* C3: with a requested target triple, a unit of Kind Host gets no flags,
\* whatever the environment variable and the configuration hold and also when
\* the requested triple is the host's; a unit of Kind Target still gets the
\* flags of the environment variable.
C3_HostGetsNoFlags ==
    flag_pc = "returned" /\ requested_target.some =>
        /\ flag_kind = "Host" => flag_result = Ok(<<>>)
        /\ flag_kind = "Target" /\ flag_env.some => flag_result = Ok(SplitEnv(flag_env.val))

\* C3 witness: the host's own triple was requested, the variable holds a flag
\* and the per-triple entry is malformed; a Host unit got the empty list.
C3_Witness ==
    /\ flag_pc = "returned"
    /\ requested_target = Some(HostTriple)
    /\ flag_kind = "Host"
    /\ flag_env = Some(<<"a">>)
    /\ HostTriple \in DOMAIN config.target
    /\ flag_result = Ok(<<>>)

\* C4 as claimed: without the environment variable, an eligible query returns
\* the per-triple flags, then the flags of the matching cfg sections in
\* lexicographic order of predicate text, and the build flags only when that
\* list is empty.
C4_SortedByPredicateText ==
    flag_pc = "returned" /\ ~flag_env.some /\ FlagQueryEligible /\ ~flag_result.err =>
        \E q \in Arrangements(MatchingNow, PredicateBefore) :
            flag_result.val = ExpectedFromConfig(q)

\* C4 as amended: ... in lexicographic (byte) order of the section keys
\* `cfg(<predicate>)`, which differs from the order of the predicate texts
\* when one predicate is a prefix of another; the query fails exactly when an
\* entry it reads is malformed.
C4_SortedByKeyText ==
    flag_pc = "returned" /\ ~flag_env.some /\ FlagQueryEligible =>
        /\ flag_result.err <=> ConsultedMalformed
        /\ ~flag_result.err =>
               \E q \in Arrangements(MatchingNow, KeyTextBefore) :
                   flag_result.val = ExpectedFromConfig(q)

\* C4 witness: `cfg(a)` and `cfg(a = "x")` both match and both hold flags; the
\* flags of `cfg(a = "x")` come first.
C4_Witness ==
    /\ flag_pc = "returned" /\ ~flag_env.some /\ flag_kind = "Target"
    /\ flag_name = "RUSTFLAGS"
    /\ requested_target = None
    /\ HostTriple \notin DOMAIN config.target
    /\ config.target[KeyB] = "nokey"
    /\ flag_result = Ok(<< <<KeyAX, "rustflags", 1>>, <<KeyAX, "rustflags", 2>>,
                          <<KeyA, "rustflags", 1>>, <<KeyA, "rustflags", 2>> >>)

\* C5: with the environment variable set and the unit eligible, the query
\* succeeds and returns what it returns under the empty configuration with no
\* probed cfg: whatever the configuration holds, malformed entries included,
\* and whatever cfg was probed, the result is the same.
C5_EnvOverridesConfig ==
    flag_pc = "returned" /\ flag_env.some /\ FlagQueryEligible =>
        /\ ~flag_result.err
        /\ flag_result
               = env_args(ConfigEmpty, requested_target, None, flag_kind,
                          flag_env, flag_name)

\* C5 witness: the variable holds two flags, the per-triple entry the query
\* would read is malformed, and the two flags are returned.
C5_Witness ==
    /\ flag_pc = "returned"
    /\ flag_env = Some(<<"a", " ", "b">>)
    /\ requested_target = None
    /\ HostTriple \in DOMAIN config.target /\ config.target[HostTriple] = "malformed"
    /\ flag_result = Ok(<< <<"a">>, <<"b">> >>)

-----------------------------------------------------------------------------
(* Claims on incremental_args                                               *)

\* decide(Some(v), _, _) = v; decide(None, Some(false), _) = false;
\* decide(None, Some(true) or None, d) = d
Decide(env, global, d) ==
    CASE env = Some(TRUE) -> TRUE
      [] env = Some(FALSE) -> FALSE
      [] env = NoBool /\ global = Some(FALSE) -> FALSE
      [] env = NoBool /\ global \in {Some(TRUE), NoBool} -> d

\* C6: where build.incremental is absent or a boolean, incremental_args
\* returns a non-empty list exactly when decide(env, global, profile default)
\* holds and the package is a path source; for a non-path package it returns
\* the empty list.
C6_IncrementalPolicy ==
    incr_pc = "returned" /\ config_incremental # "malformed" =>
        LET global == GetBool(config_incremental).val
            wanted == Decide(incremental_env, global, profile_incremental(incr_unit))
        IN /\ ~incr_result.err
           /\ incr_result.val # <<>> <=> wanted /\ is_path(incr_unit)
           /\ ~is_path(incr_unit) => incr_result = Ok(<<>>)

\* C6 witness: no environment override, build.incremental = true, a path
\* package whose profile default is off: nothing is requested.
C6_Witness ==
    /\ incr_pc = "returned"
    /\ incremental_env = NoBool
    /\ config_incremental = "true"
    /\ incr_unit = "B"
    /\ incr_result = Ok(<<>>)

-----------------------------------------------------------------------------
(* Claims on parse_crate_type and the probe                                 *)

\* What the compiler b means each crate type to get: the parts of its own
\* line when b supports it, nothing when it does not
ExpectedCrateTypes(b) ==
    [t \in AllCrateTypes |->
        IF t \in b.supported THEN Some(FileNameParts(t)) ELSE None]

\* The last probe got as far as running the compiler
QueriesIssued == probe_kind # "none" /\ probe_result.queries # <<>>

\* The stdout lines the last probe read, and what the crate-type loop made of
\* them
ProbeLines == Lines(Stdout(probe_rustc, probe_rustc.combined))
ProbeParsed == ParseCrateTypes(1, Stderr(probe_rustc), ProbeLines, <<>>)

\* C7: the compiler printed one well-formed line for each crate type it
\* supports, in request order, and one diagnostic for each it does not; one
\* of the two queries succeeded and the sysroot and cfg lines are in order.
\* Then the probe succeeds and maps every supported type to the parts of its
\* own line and every other type to None.
C7_EachTypeGetsItsOwnLine ==
    /\ QueriesIssued
    /\ probe_rustc.fallback
    /\ probe_rustc.damage = "none"
    /\ probe_rustc.sysroot_line /\ probe_rustc.cfg_ok
    => /\ ~probe_result.err
       /\ probe_result.info.crate_types = ExpectedCrateTypes(probe_rustc)

\* C7, the state that departs from it: every type but cdylib is supported,
\* the only diagnostic names cdylib, the fallback query is the one that
\* succeeded; dylib is recorded as unsupported and the two types after it get
\* the line of the type before them.
C7_Witness ==
    /\ QueriesIssued
    /\ probe_rustc.supported = AllCrateTypes \ {CDYLIB}
    /\ probe_rustc.damage = "none"
    /\ ~probe_rustc.combined
    /\ ~probe_result.err
    /\ probe_result.info.crate_types[DYLIB] = None
    /\ probe_result.info.crate_types[STATICLIB] = Some(FileNameParts(DYLIB))
    /\ probe_result.info.crate_types[PROC_MACRO] = Some(FileNameParts(STATICLIB))

\* cfg is set exactly when the sysroot library directory is
CfgIffSysroot(i) == i.cfg.some <=> i.sysroot_libdir.some

\* C8 as stated: the fallback query is issued only after the combined one
\* failed; when the combined query fails and the fallback succeeds the probe
\* succeeds with cfg and sysroot library directory unset; when both fail the
\* probe and Context::new fail; in every TargetInfo cfg is set exactly when
\* the sysroot library directory is.
C8_FallbackAlwaysSucceeds ==
    /\ QueriesIssued =>
        /\ probe_result.queries \in {<<"combined">>, <<"combined", "fallback">>}
        /\ Len(probe_result.queries) = 2 <=> ~probe_rustc.combined
        /\ ~probe_rustc.combined /\ probe_rustc.fallback =>
               /\ ~probe_result.err
               /\ ~probe_result.info.cfg.some
               /\ ~probe_result.info.sysroot_libdir.some
        /\ ~probe_rustc.combined /\ ~probe_rustc.fallback =>
               probe_result.err /\ new_pc = "failed"
    /\ CfgIffSysroot(host_info) /\ CfgIffSysroot(target_info)
    /\ CfgIffSysroot(probe_result.info)

\* C8, amended: as above, but when the combined query fails and the fallback
\* succeeds the probe fails exactly when parse_crate_type fails on the
\* fallback's output, which fails Context::new too; otherwise it succeeds
\* with cfg and sysroot library directory unset.
C8_FallbackSucceedsIfOutputParses ==
    /\ QueriesIssued =>
        /\ probe_result.queries \in {<<"combined">>, <<"combined", "fallback">>}
        /\ Len(probe_result.queries) = 2 <=> ~probe_rustc.combined
        /\ ~probe_rustc.combined /\ probe_rustc.fallback =>
               /\ probe_result.err <=> ProbeParsed.err
               /\ probe_result.err => new_pc = "failed"
               /\ ~probe_result.info.cfg.some
               /\ ~probe_result.info.sysroot_libdir.some
        /\ ~probe_rustc.combined /\ ~probe_rustc.fallback =>
               probe_result.err /\ new_pc = "failed"
    /\ CfgIffSysroot(host_info) /\ CfgIffSysroot(target_info)
    /\ CfgIffSysroot(probe_result.info)

\* C8 witness: the combined query failed, the fallback succeeded, and
\* Context::new went on with a TargetInfo that has the crate types but
\* neither cfg nor sysroot library directory.
C8_Witness ==
    /\ new_pc = "deps"
    /\ probe_result.queries = <<"combined", "fallback">>
    /\ ~probe_result.err
    /\ probe_rustc.supported = AllCrateTypes
    /\ target_info.crate_types = ExpectedCrateTypes(probe_rustc)
    /\ target_info.cfg = None
    /\ target_info.sysroot_libdir = None

\* The three lines of the claim, for a crate type whose parts are p: none, one
\* without the delimiter, one with nothing after the delimiter
NoLine == <<>>
NoDelimiterLine(p) == <<p[1] \o <<"_">> \o p[2]>>
NoSuffixLine(p) == <<p[1] \o Delimiter>>

\* C9 as stated: for a crate type the compiler supports, hence with no
\* diagnostic of its own on stderr, parse_crate_type returns an error when no
\* line is left, when the line lacks the delimiter, and when nothing follows
\* the delimiter; and a parse_crate_type error fails the probe and
\* Context::new.
C9_ErrorInAllThreeCases ==
    QueriesIssued =>
        /\ \A t \in probe_rustc.supported :
               \A ls \in {NoLine, NoDelimiterLine(FileNameParts(t)),
                          NoSuffixLine(FileNameParts(t))} :
                   parse_crate_type(t, Stderr(probe_rustc), ls).res.err
        /\ ProbeParsed.err => probe_result.err /\ new_pc = "failed"

\* C9, amended: for a crate type whose name occurs in no diagnostic line of
\* stderr, parse_crate_type returns an error when no line is left and when
\* the line lacks the delimiter; a line with nothing after the delimiter
\* gives the pair (prefix, ""), not an error.  A crate type whose name occurs
\* in a diagnostic line gets None whatever the lines are.  A parse_crate_type
\* error fails the probe and Context::new.
C9_ErrorWithoutLineOrDelimiter ==
    QueriesIssued =>
        /\ \A t \in AllCrateTypes :
               LET p      == FileNameParts(t)
                   error  == Stderr(probe_rustc)
                   ls     == Lines(error)
                   named  == \E i \in 1..Len(ls) : Contains(ls[i], t)
               IN IF named
                  THEN \A l \in {NoLine, NoDelimiterLine(p), NoSuffixLine(p)} :
                           parse_crate_type(t, error, l).res = Ok(None)
                  ELSE /\ parse_crate_type(t, error, NoLine).res.err
                       /\ parse_crate_type(t, error, NoDelimiterLine(p)).res.err
                       /\ parse_crate_type(t, error, NoSuffixLine(p)).res
                              = Ok(Some(<<p[1], <<>>>>))
        /\ ProbeParsed.err => probe_result.err /\ new_pc = "failed"

\* C9 witness: every crate type is supported and the line of the last one
\* lacks the delimiter: the probe and Context::new have failed after running
\* the compiler.
C9_Witness ==
    /\ QueriesIssued
    /\ probe_rustc.supported = AllCrateTypes
    /\ probe_rustc.damage = "no_delimiter"
    /\ probe_rustc.combined
    /\ ProbeParsed.err
    /\ probe_result.err
    /\ new_pc = "failed"

\* C10: once the probes have succeeded with sysroot information, the Host
\* library directory is <sysroot>/lib (<sysroot>/bin on Windows) and the
\* Target one <sysroot>/lib/rustlib/<triple>/lib, whether the compiler was
\* probed once or once for each kind.  <sysroot> is the line the probe took
\* for it, the first component of the recorded path.
C10_LibdirByKind ==
    new_pc \in {"deps", "done"} =>
        /\ host_info.sysroot_libdir.some =>
               Tail(host_info.sysroot_libdir.val)
                   = <<IF windows THEN "bin" ELSE "lib">>
        /\ target_info.sysroot_libdir.some =>
               Tail(target_info.sysroot_libdir.val)
                   = <<"lib", "rustlib", target_triple, "lib">>

\* C10, the state that departs from it: no target was requested, the one
\* probe succeeded with sysroot information, and the Host library directory
\* is the Target one.
C10_Witness ==
    /\ new_pc = "deps"
    /\ requested_target = None
    /\ new_log = <<"setup", <<"probe", "Target">>>>
    /\ host_info.sysroot_libdir
           = Some(<<Sysroot, "lib", "rustlib", HostTriple, "lib">>)
    /\ target_info.sysroot_libdir = host_info.sysroot_libdir

-----------------------------------------------------------------------------
(* Claims on Context::new                                                   *)

\* The probes Context::new has to make, in order
ProbesNeeded ==
    IF host_target_same.val THEN << <<"probe", "Target">> >>
    ELSE << <<"probe", "Host">>, <<"probe", "Target">> >>

\* Both TargetInfos come from a probe that succeeded
InfosFilled ==
    /\ host_info.crate_type_process /\ target_info.crate_type_process
    /\ probe_kind # "none" /\ ~probe_result.err

JobserverReady == jobserver \in {"from_env", "created"}

C11_States ==
    /\ new_pc = "done" =>
           /\ JobserverReady
           /\ ~host_target_same.err
           /\ new_log = <<"setup">> \o ProbesNeeded \o <<"deps">>
           /\ InfosFilled
           /\ DOMAIN unit_dependencies = GraphUnits
    /\ new_pc = "deps" =>
           /\ JobserverReady
           /\ ~host_target_same.err
           /\ new_log = <<"setup">> \o ProbesNeeded
           /\ InfosFilled
    /\ jobserver = "create_failed" => new_pc = "failed"
    /\ probe_kind # "none" /\ probe_result.err => new_pc = "failed"
    /\ new_pc # "done" => unit_dependencies = <<>>

C11_Steps ==
    /\ new_pc = "failed" => new_pc' = "failed"
    /\ unit_dependencies' # unit_dependencies =>
           new_pc = "deps" /\ InfosFilled /\ new_pc' = "done"
    /\ new_pc = "deps" /\ new_pc' # "deps" =>
           /\ new_log' = Append(new_log, "deps")
           /\ new_pc' = "failed" => unit_dependencies' = <<>>

\* C11: Context::new is done only after the jobserver was set up, every
\* needed probe succeeded and the dependency graph was built, in that order;
\* a jobserver that cannot be created, a failed probe and a failed graph
\* construction each end it in failure, for good, with no graph stored; and
\* build_unit_dependencies runs only once both TargetInfos are filled by a
\* successful probe.
C11_NewAllOrNothing == []C11_States /\ [][C11_Steps]_vars

\* C11 witness: a target other than the host's was requested, the jobserver
\* was created, Host and Target were probed in that order, then the graph was
\* built.
C11_Witness ==
    /\ new_pc = "done"
    /\ requested_target = Some(TargetTriple)
    /\ jobserver = "created"
    /\ new_log = <<"setup", <<"probe", "Host">>, <<"probe", "Target">>, "deps">>
    /\ InfosFilled
    /\ DOMAIN unit_dependencies = GraphUnits

-----------------------------------------------------------------------------
(* Claims on repeated walks                                                 *)

\* C12: over any sequence of build_used_in_plugin_map calls on one Context,
\* whatever the roots of each, no step takes a unit out of used_in_plugin: a
\* unit that is a member stays one through every later step and call.
C12_UsedInPluginOnlyGrows == [][used_in_plugin \subseteq used_in_plugin']_vars

\* C12 witness: a call whose only root C marks nothing has returned, and the
\* build script B that an earlier call marked is still a member.
C12_Witness ==
    /\ wpc = "done"
    /\ roots = <<"C">>
    /\ PathMarked(Range(roots)) = {}
    /\ used_in_plugin = {"B"}

-----------------------------------------------------------------------------
(* Claims on the value of the flag environment variable                     *)

Whitespace == {" ", "\t", "\n"}

\* The maximal runs of characters of s outside seps, in order; cur is the run
\* being read
RECURSIVE Runs(_, _, _)
Runs(s, seps, cur) ==
    IF s = <<>> THEN (IF cur = <<>> THEN <<>> ELSE <<cur>>)
    ELSE IF Head(s) \in seps
         THEN (IF cur = <<>> THEN <<>> ELSE <<cur>>) \o Runs(Tail(s), seps, <<>>)
         ELSE Runs(Tail(s), seps, Append(cur, Head(s)))

\* r from its first to its last character that is not whitespace
Strip(r) ==
    LET idx == {i \in 1..Len(r) : r[i] \notin Whitespace}
    IN IF idx = {} THEN <<>>
       ELSE SubSeq(r, CHOOSE i \in idx : \A j \in idx : i <= j,
                      CHOOSE i \in idx : \A j \in idx : j <= i)

EnvQueryReturned == flag_pc = "returned" /\ flag_env.some /\ FlagQueryEligible

\* C13 as stated: with the variable set, the flags returned are the maximal
\* runs of non-whitespace characters of its value, in order; none is empty
\* and none holds a space, a tab or a newline.
C13_SplitOnWhitespace ==
    EnvQueryReturned =>
        /\ flag_result = Ok(Runs(flag_env.val, Whitespace, <<>>))
        /\ \A i \in 1..Len(flag_result.val) :
               /\ flag_result.val[i] # <<>>
               /\ \A k \in 1..Len(flag_result.val[i]) :
                      flag_result.val[i][k] \notin Whitespace

\* C13, amended: the flags returned are the maximal runs of characters other
\* than the space, each cut back to its first and last non-whitespace
\* character, those left empty dropped, in order; none is empty, none holds a
\* space, none begins or ends with whitespace.  A tab or newline inside a run
\* stays inside the flag.
C13_SplitOnSpace ==
    EnvQueryReturned =>
        LET runs     == Runs(flag_env.val, {" "}, <<>>)
            stripped == [i \in 1..Len(runs) |-> Strip(runs[i])]
        IN /\ flag_result = Ok(SelectSeq(stripped, LAMBDA r : r # <<>>))
           /\ \A i \in 1..Len(flag_result.val) :
                  LET f == flag_result.val[i]
                  IN /\ f # <<>>
                     /\ \A k \in 1..Len(f) : f[k] # " "
                     /\ f[1] \notin Whitespace /\ f[Len(f)] \notin Whitespace

\* C13 witness: the value is a, a tab, b; one flag is returned, with the tab
\* inside.
C13_Witness ==
    /\ EnvQueryReturned
    /\ flag_env = Some(<<"a", "\t", "b">>)
    /\ flag_result = Ok(<< <<"a", "\t", "b">> >>)

-----------------------------------------------------------------------------
(* dep_targets on a unit the graph has no entry for                         *)

DepQueryWithoutEntry ==
    /\ dep_unit # "none"
    /\ dep_unit \notin DOMAIN unit_dependencies

\* C14 as stated: for every unit that has no entry in the dependency graph,
\* dep_targets aborts; it never returns a list for such a unit.
C14_MissingEntryAlwaysAborts ==
    DepQueryWithoutEntry => dep_result.panic

\* C14: for a unit that has no entry in the dependency graph, dep_targets
\* aborts, except that an overridden custom-build run gets the empty list
\* without the graph being consulted.
C14_MissingEntryAbortsUnlessOverridden ==
    DepQueryWithoutEntry =>
        IF run_custom_build(dep_unit)
           /\ <<package_id(dep_unit), unit_kind(dep_unit)>> \in build_script_overridden
        THEN dep_result = [panic |-> FALSE, val |-> <<>>]
        ELSE dep_result.panic

\* C14 witness: the registry unit D, which no graph has an entry for, was
\* queried and the lookup aborted.
C14_Witness ==
    /\ dep_unit = "D"
    /\ "D" \notin DOMAIN unit_dependencies
    /\ dep_result.panic

-----------------------------------------------------------------------------
(* The size and the end of one build_used_in_plugin_map call                *)

\* No (Unit, flag) pair has had its dependencies expanded twice
ExpandedAtMostOnce ==
    \A i, j \in 1..Len(expansions) : expansions[i] = expansions[j] => i = j

C15_States ==
    /\ ExpandedAtMostOnce
    /\ Len(expansions) <= 2 * Cardinality(Units)
    /\ Len(stack) <= Len(expansions)

C15_Terminates == (wpc = "walking") ~> (wpc \in {"done", "panic"})

\* C15: within one build_used_in_plugin_map call each (Unit, flag) pair is
\* expanded at most once, so there are at most 2 x |units| expansions (and
\* never more invocations in progress than expansions), and every call that
\* has started ends, with Ok or with the abort of dep_targets, on every
\* dependency graph, cyclic ones included.
C15_WalkBoundedAndTerminates == []C15_States /\ C15_Terminates

\* C15 witness: A and C depend on each other and the build script B depends on
\* A; the call for the roots A, B has ended after expanding A and C once
\* without the flag and B, A, C once with it.
C15_Witness ==
    /\ wpc = "done"
    /\ roots = <<"A", "B">>
    /\ build_script_overridden = {}
    /\ "B" \in DOMAIN unit_dependencies
    /\ unit_dependencies["A"] = <<"C">>
    /\ unit_dependencies["C"] = <<"A">>
    /\ unit_dependencies["B"] = <<"A">>
    /\ expansions = << <<"A", FALSE>>, <<"C", FALSE>>,
                       <<"B", TRUE>>, <<"A", TRUE>>, <<"C", TRUE>> >>

====
